---- MODULE Spec2Model ----
(***************************************************************************)
(* Connect Four with a minimax opponent (src/connect4/main.py).            *)
(*                                                                         *)
(* The board is a ROWS x COLUMNS array of 0 (empty), 1 (human) and         *)
(* 2 (computer), indexed [row][column] from 0, row 0 being the top.        *)
(* The source fixes ROWS = 6 and COLUMNS = 7; exhaustive minimax on that   *)
(* board cannot be enumerated, so the board's shape is a parameter of the  *)
(* model, fixed by each specification's initial state and never changed.   *)
(***************************************************************************)
EXTENDS Integers, FiniteSets, Sequences, TLC

VARIABLES
    shape,        \* <<ROWS, COLUMNS>>, the shape every array is created with
    board,        \* the array the module-global name `board` refers to
    check_board,  \* the array bound as check_win's default argument (line 82)
    rebound,      \* TRUE once restart_game has rebound `board` to a new array
    player,       \* whose turn it is (line 177)
    game_over,    \* the terminal flag (line 178)
    stack,        \* the call stack of a search in progress, innermost first
    returned,     \* <<v>> when the call that just ended returned v, else <<>>
    called        \* <<>>, or the outermost call in progress or just ended:
                  \* its function, its is_maximizing and the board it was given

vars == <<shape, board, check_board, rebound, player, game_over,
          stack, returned, called>>

session_vars == <<check_board, rebound, player, game_over>>
search_vars == <<stack, returned, called>>

\* ------------------------------------------------------------------ bounds
\* Shape of the game session's board.
SessionRows == 5
SessionColumns == 2

\* ------------------------------------------------------- program constants
ROWS == shape[1]
COLUMNS == shape[2]

\* get_next_open_row's "no open row" result.
None == -1

\* float('inf'): any value above every other score; -PosInf is float('-inf').
PosInf == 1000000

\* The initial best_score of a search loop is -SENTINEL or +SENTINEL.
SENTINEL == 1000

Marks == {1, 2}

\* np.zeros((ROWS, COLUMNS))
zeros(R, C) == [r \in 0..(R - 1) |-> [c \in 0..(C - 1) |-> 0]]

max(a, b) == IF a >= b THEN a ELSE b
min(a, b) == IF a <= b THEN a ELSE b

\* ------------------------------------------------------------ board rules

\* get_next_open_row scanning from the top down: range(ROWS).
get_next_open_row_top(b, col) ==
    LET open == {r \in 0..(ROWS - 1) : b[r][col] = 0}
    IN  IF open = {} THEN None
        ELSE CHOOSE r \in open : \A s \in open : r <= s

\* The rows of column col scanned from the bottom up; the first empty one.
get_next_open_row(b, col) ==
    LET open == {r \in 0..(ROWS - 1) : b[r][col] = 0}
    IN  IF open = {} THEN None
        ELSE CHOOSE r \in open : \A s \in open : s <= r

\* mark_square storing into the top cell when no row is open.
mark_square_overwrite(b, col, mark) ==
    LET row == get_next_open_row(b, col)
    IN  [b EXCEPT ![IF row # None THEN row ELSE 0][col] = mark]

\* mark_square storing into the topmost empty cell of the column.
mark_square_topmost(b, col, mark) ==
    LET row == get_next_open_row_top(b, col)
    IN  IF row # None THEN [b EXCEPT ![row][col] = mark] ELSE b

mark_square(b, col, mark) ==
    LET row == get_next_open_row(b, col)
    IN  IF row # None THEN [b EXCEPT ![row][col] = mark] ELSE b

\* is_valid_move reading the bottom row instead of the top one.
is_valid_move_bottom(b, col) == b[ROWS - 1][col % COLUMNS] = 0

\* is_valid_move reads the module-global array; every caller holds that same
\* array (minimax is only ever handed the global one), passed here as b.
\* board[0][col] on a numpy array: an index in -COLUMNS..-1 counts from the
\* right end, any other index outside 0..COLUMNS-1 raises IndexError.
is_valid_move_raises(col) == col < -COLUMNS \/ col >= COLUMNS

is_valid_move(b, col) == b[0][col % COLUMNS] = 0

\* is_board_full reading the bottom row instead of the top one.
is_board_full_bottom(b) == \A c \in 0..(COLUMNS - 1) : b[ROWS - 1][c] # 0

is_board_full(b) == \A c \in 0..(COLUMNS - 1) : b[0][c] # 0

\* check_win whose last loop starts one row too low: range(4, ROWS).
check_win_short(mark, cb) ==
    \/ \E r \in 0..(ROWS - 1), c \in 0..(COLUMNS - 4) :
          /\ cb[r][c] = mark /\ cb[r][c + 1] = mark
          /\ cb[r][c + 2] = mark /\ cb[r][c + 3] = mark
    \/ \E c \in 0..(COLUMNS - 1), r \in 0..(ROWS - 4) :
          /\ cb[r][c] = mark /\ cb[r + 1][c] = mark
          /\ cb[r + 2][c] = mark /\ cb[r + 3][c] = mark
    \/ \E r \in 0..(ROWS - 4), c \in 0..(COLUMNS - 4) :
          /\ cb[r][c] = mark /\ cb[r + 1][c + 1] = mark
          /\ cb[r + 2][c + 2] = mark /\ cb[r + 3][c + 3] = mark
    \/ \E r \in 4..(ROWS - 1), c \in 0..(COLUMNS - 4) :
          /\ cb[r][c] = mark /\ cb[r - 1][c + 1] = mark
          /\ cb[r - 2][c + 2] = mark /\ cb[r - 3][c + 3] = mark

check_win(mark, cb) ==
    \/ \E r \in 0..(ROWS - 1), c \in 0..(COLUMNS - 4) :
          /\ cb[r][c] = mark /\ cb[r][c + 1] = mark
          /\ cb[r][c + 2] = mark /\ cb[r][c + 3] = mark
    \/ \E c \in 0..(COLUMNS - 1), r \in 0..(ROWS - 4) :
          /\ cb[r][c] = mark /\ cb[r + 1][c] = mark
          /\ cb[r + 2][c] = mark /\ cb[r + 3][c] = mark
    \/ \E r \in 0..(ROWS - 4), c \in 0..(COLUMNS - 4) :
          /\ cb[r][c] = mark /\ cb[r + 1][c + 1] = mark
          /\ cb[r + 2][c + 2] = mark /\ cb[r + 3][c + 3] = mark
    \/ \E r \in 3..(ROWS - 1), c \in 0..(COLUMNS - 4) :
          /\ cb[r][c] = mark /\ cb[r - 1][c + 1] = mark
          /\ cb[r - 2][c + 2] = mark /\ cb[r - 3][c + 3] = mark

\* ----------------------------------------------------------------- search
\* minimax and best_move mutate the array in place; the model threads the
\* array through every call and returns it with the result.

\* terminal_score with the sentinel in place of float('inf').
terminal_score_finite(b) ==
    IF check_win(2, b) THEN <<SENTINEL>>
    ELSE IF check_win(1, b) THEN <<-SENTINEL>>
    ELSE IF is_board_full(b) THEN <<0>>
    ELSE <<>>

\* The terminal conditions of minimax: <<score>>, or <<>> when none holds.
terminal_score(b) ==
    IF check_win(2, b) THEN <<PosInf>>
    ELSE IF check_win(1, b) THEN <<-PosInf>>
    ELSE IF is_board_full(b) THEN <<0>>
    ELSE <<>>

\* best_score before the loop of either branch.
initial_score(is_maximizing) == IF is_maximizing THEN -SENTINEL ELSE SENTINEL

\* The mark either branch places.
branch_mark(is_maximizing) == IF is_maximizing THEN 2 ELSE 1

\* updated_score with max and min exchanged.
updated_score_swapped(is_maximizing, score, best_score) ==
    IF is_maximizing THEN min(score, best_score) ELSE max(score, best_score)

\* best_score = max(score, best_score), or min in the minimizing branch.
updated_score(is_maximizing, score, best_score) ==
    IF is_maximizing THEN max(score, best_score) ELSE min(score, best_score)

\* board[row][col] = mark, and board[row][col] = 0.
place(b, row, col, mark) == [b EXCEPT ![row][col] = mark]

\* A retraction that is left out.
retract_nothing(b, row, col) == b

retract(b, row, col) == [b EXCEPT ![row][col] = 0]

\* best_move's test for a new best column.
is_better(score, best_score) == score > best_score

RECURSIVE minimax(_, _, _), minimax_loop(_, _, _, _, _)

minimax(b, depth, is_maximizing) ==
    IF terminal_score(b) # <<>>
    THEN [score |-> terminal_score(b)[1], board |-> b]
    ELSE minimax_loop(b, depth, is_maximizing, 0,
                      initial_score(is_maximizing))

\* The for loop of either branch, from column col on, best_score so far.
minimax_loop(b, depth, is_maximizing, col, best_score) ==
    IF col >= COLUMNS THEN [score |-> best_score, board |-> b]
    ELSE IF is_valid_move(b, col) THEN
        LET row == get_next_open_row(b, col)
            placed == place(b, row, col, branch_mark(is_maximizing))
            sub == minimax(placed, depth + 1, ~is_maximizing)
            undone == retract(sub.board, row, col)
        IN  minimax_loop(undone, depth, is_maximizing, col + 1,
                         updated_score(is_maximizing, sub.score, best_score))
    ELSE minimax_loop(b, depth, is_maximizing, col + 1, best_score)

RECURSIVE best_move_loop(_, _, _, _)

\* The for loop of best_move, from column col on.
best_move_loop(b, col, best_score, move) ==
    IF col >= COLUMNS THEN [move |-> move, score |-> best_score, board |-> b]
    ELSE IF is_valid_move(b, col) THEN
        LET row == get_next_open_row(b, col)
            placed == place(b, row, col, 2)
            sub == minimax(placed, 0, FALSE)
            undone == retract(sub.board, row, col)
        IN  IF is_better(sub.score, best_score)
            THEN best_move_loop(undone, col + 1, sub.score, col)
            ELSE best_move_loop(undone, col + 1, best_score, move)
    ELSE best_move_loop(b, col + 1, best_score, move)

best_move(b) ==
    IF is_board_full(b) THEN [ret |-> FALSE, move |-> None, board |-> b]
    ELSE LET s == best_move_loop(b, 0, -SENTINEL, None)
         IN  IF s.move # None
             THEN [ret |-> TRUE, move |-> s.move,
                   board |-> mark_square(s.board, s.move, 2)]
             ELSE [ret |-> FALSE, move |-> None, board |-> s.board]

\* ----------------------------------------------------------- game session

\* The array check_win(player) reads when called without a board: the
\* default argument, which is the array `board` named when check_win was
\* defined. Until the first restart that is the current array (holding b).
default_board(b) == IF rebound THEN check_board ELSE b

\* check_win(mark) as the game loop calls it, with no board argument.
check_win_default(mark) == check_win(mark, default_board(board))

\* The body of the MOUSEBUTTONDOWN branch for a click on column col.
handle_click(col) ==
    IF is_valid_move(board, col) THEN
        LET b1   == mark_square(board, col, 1)
            won1 == check_win(1, default_board(b1))
            bm   == IF won1 THEN [ret |-> FALSE, move |-> None, board |-> b1]
                    ELSE best_move(b1)
            b2   == bm.board
            won2 == ~won1 /\ bm.ret /\ check_win(2, default_board(b2))
        IN  [board |-> b2,
             player |-> IF won1 THEN player
                        ELSE IF bm.ret /\ ~won2 THEN 1 ELSE 2,
             game_over |-> won1 \/ won2 \/ is_board_full(b2)]
    ELSE [board |-> board, player |-> player, game_over |-> game_over]

SessionInit ==
    /\ shape = <<SessionRows, SessionColumns>>
    /\ board = zeros(SessionRows, SessionColumns)
    /\ check_board = board
    /\ rebound = FALSE
    /\ player = 1
    /\ game_over = FALSE
    /\ stack = <<>>
    /\ returned = <<>>
    /\ called = <<>>

\* pygame.MOUSEBUTTONDOWN at a position inside the window, whose x lies in
\* 0..WIDTH-1: col = mouseX // SQUARE_SIZE is one of 0..COLUMNS-1.
MouseButtonDown(col) ==
    /\ ~game_over
    /\ LET h == handle_click(col)
       IN  /\ board' = h.board
           /\ player' = h.player
           /\ game_over' = h.game_over
           /\ check_board' = IF rebound THEN check_board ELSE h.board
    /\ UNCHANGED <<shape, rebound, search_vars>>

\* A click while game_over is set is not handled.
MouseButtonDownIgnored ==
    /\ game_over
    /\ UNCHANGED vars

\* The restart key handled without resetting the flags.
KeyDownR_board_only ==
    /\ board' = zeros(ROWS, COLUMNS)
    /\ check_board' = IF rebound THEN check_board ELSE board
    /\ rebound' = TRUE
    /\ UNCHANGED <<shape, game_over, player, search_vars>>

\* pygame.KEYDOWN with K_r: restart_game(), then the flags are reset.
KeyDownR ==
    /\ board' = zeros(ROWS, COLUMNS)
    /\ check_board' = IF rebound THEN check_board ELSE board
    /\ rebound' = TRUE
    /\ game_over' = FALSE
    /\ player' = 1
    /\ UNCHANGED <<shape, search_vars>>

SessionNext ==
    \/ \E col \in 0..(COLUMNS - 1) : MouseButtonDown(col)
    \/ MouseButtonDownIgnored
    \/ KeyDownR

Spec == SessionInit /\ [][SessionNext]_vars

\* ------------------------------------------------- the search, step by step
\* best_move and minimax as the interpreter runs them: one frame per call in
\* progress, and the array changed in place by every placement and
\* retraction. A frame records the board its call was given (`given`) only
\* so that properties can refer to it.

Frame(fn, is_maximizing, depth, b) ==
    [fn |-> fn, pc |-> "entry", is_maximizing |-> is_maximizing,
     depth |-> depth, col |-> 0, row |-> None, best_score |-> 0,
     move |-> None, given |-> b]

top == Head(stack)

\* Replace the innermost frame.
Jump(frame) == stack' = <<frame>> \o Tail(stack)

\* End the innermost call with value v.
Return(v) == stack' = Tail(stack) /\ returned' = <<v>>

idle == stack = <<>> /\ called = <<>>
done == stack = <<>> /\ called # <<>>

\* A caller invokes best_move() on the current board.
CallBestMove ==
    /\ idle
    /\ called' = <<[fn |-> "best_move", is_maximizing |-> TRUE, board |-> board]>>
    /\ stack' = <<Frame("best_move", TRUE, 0, board)>>
    /\ UNCHANGED <<shape, board, returned, session_vars>>

\* A caller invokes minimax(board, 0, is_maximizing) on the current board.
CallMinimax(is_maximizing) ==
    /\ idle
    /\ called' = <<[fn |-> "minimax", is_maximizing |-> is_maximizing,
                    board |-> board]>>
    /\ stack' = <<Frame("minimax", is_maximizing, 0, board)>>
    /\ UNCHANGED <<shape, board, returned, session_vars>>

\* Lines 119-124: a terminal position returns its score.
MinimaxTerminal ==
    /\ stack # <<>> /\ top.fn = "minimax" /\ top.pc = "entry"
    /\ terminal_score(board) # <<>>
    /\ Return(terminal_score(board)[1])
    /\ UNCHANGED <<shape, board, called, session_vars>>

\* Lines 126-127 and 136-137: the loop of the branch begins.
MinimaxBegin ==
    /\ stack # <<>> /\ top.fn = "minimax" /\ top.pc = "entry"
    /\ terminal_score(board) = <<>>
    /\ Jump([top EXCEPT !.pc = "loop", !.col = 0,
                        !.best_score = initial_score(top.is_maximizing)])
    /\ UNCHANGED <<shape, board, returned, called, session_vars>>

\* Lines 129 and 139: a full column is passed over.
MinimaxSkip ==
    /\ stack # <<>> /\ top.fn = "minimax" /\ top.pc = "loop"
    /\ top.col < COLUMNS /\ ~is_valid_move(board, top.col)
    /\ Jump([top EXCEPT !.col = top.col + 1])
    /\ UNCHANGED <<shape, board, returned, called, session_vars>>

\* Lines 130-132 and 140-142: the speculative placement and the recursive call.
MinimaxPlace ==
    /\ stack # <<>> /\ top.fn = "minimax" /\ top.pc = "loop"
    /\ top.col < COLUMNS /\ is_valid_move(board, top.col)
    /\ LET row == get_next_open_row(board, top.col)
       IN  /\ board' = place(board, row, top.col, branch_mark(top.is_maximizing))
           /\ stack' = <<Frame("minimax", ~top.is_maximizing, top.depth + 1, board'),
                         [top EXCEPT !.pc = "wait", !.row = row]>> \o Tail(stack)
    /\ UNCHANGED <<shape, returned, called, session_vars>>

\* MinimaxUndo going round the loop without moving on to the next column.
MinimaxUndo_same_column ==
    /\ stack # <<>> /\ top.fn = "minimax" /\ top.pc = "wait"
    /\ returned # <<>>
    /\ board' = retract(board, top.row, top.col)
    /\ Jump([top EXCEPT !.pc = "loop", !.row = None,
                        !.best_score = updated_score(top.is_maximizing,
                                                     returned[1], top.best_score)])
    /\ returned' = <<>>
    /\ UNCHANGED <<shape, called, session_vars>>

\* Lines 133-134 and 143-144: the retraction and the new best_score.
MinimaxUndo ==
    /\ stack # <<>> /\ top.fn = "minimax" /\ top.pc = "wait"
    /\ returned # <<>>
    /\ board' = retract(board, top.row, top.col)
    /\ Jump([top EXCEPT !.pc = "loop", !.col = top.col + 1, !.row = None,
                        !.best_score = updated_score(top.is_maximizing,
                                                     returned[1], top.best_score)])
    /\ returned' = <<>>
    /\ UNCHANGED <<shape, called, session_vars>>

\* Lines 135 and 145: the loop is over.
MinimaxReturn ==
    /\ stack # <<>> /\ top.fn = "minimax" /\ top.pc = "loop"
    /\ top.col >= COLUMNS
    /\ Return(top.best_score)
    /\ UNCHANGED <<shape, board, called, session_vars>>

\* Lines 148-149.
BestMoveFull ==
    /\ stack # <<>> /\ top.fn = "best_move" /\ top.pc = "entry"
    /\ is_board_full(board)
    /\ Return(FALSE)
    /\ UNCHANGED <<shape, board, called, session_vars>>

\* Lines 151-152.
BestMoveBegin ==
    /\ stack # <<>> /\ top.fn = "best_move" /\ top.pc = "entry"
    /\ ~is_board_full(board)
    /\ Jump([top EXCEPT !.pc = "loop", !.col = 0, !.best_score = -SENTINEL,
                        !.move = None])
    /\ UNCHANGED <<shape, board, returned, called, session_vars>>

\* Line 154, the column is full.
BestMoveSkip ==
    /\ stack # <<>> /\ top.fn = "best_move" /\ top.pc = "loop"
    /\ top.col < COLUMNS /\ ~is_valid_move(board, top.col)
    /\ Jump([top EXCEPT !.col = top.col + 1])
    /\ UNCHANGED <<shape, board, returned, called, session_vars>>

\* Lines 155-157.
BestMovePlace ==
    /\ stack # <<>> /\ top.fn = "best_move" /\ top.pc = "loop"
    /\ top.col < COLUMNS /\ is_valid_move(board, top.col)
    /\ LET row == get_next_open_row(board, top.col)
       IN  /\ board' = place(board, row, top.col, 2)
           /\ stack' = <<Frame("minimax", FALSE, 0, board'),
                         [top EXCEPT !.pc = "wait", !.row = row]>> \o Tail(stack)
    /\ UNCHANGED <<shape, returned, called, session_vars>>

\* Lines 158-161.
BestMoveUndo ==
    /\ stack # <<>> /\ top.fn = "best_move" /\ top.pc = "wait"
    /\ returned # <<>>
    /\ board' = retract(board, top.row, top.col)
    /\ Jump(IF is_better(returned[1], top.best_score)
            THEN [top EXCEPT !.pc = "loop", !.col = top.col + 1, !.row = None,
                             !.best_score = returned[1], !.move = top.col]
            ELSE [top EXCEPT !.pc = "loop", !.col = top.col + 1, !.row = None])
    /\ returned' = <<>>
    /\ UNCHANGED <<shape, called, session_vars>>

\* Lines 162-164.
BestMoveCommit ==
    /\ stack # <<>> /\ top.fn = "best_move" /\ top.pc = "loop"
    /\ top.col >= COLUMNS /\ top.move # None
    /\ board' = mark_square(board, top.move, 2)
    /\ Return(TRUE)
    /\ UNCHANGED <<shape, called, session_vars>>

\* Line 165.
BestMoveNone ==
    /\ stack # <<>> /\ top.fn = "best_move" /\ top.pc = "loop"
    /\ top.col >= COLUMNS /\ top.move = None
    /\ Return(FALSE)
    /\ UNCHANGED <<shape, board, called, session_vars>>

SearchStep ==
    \/ MinimaxTerminal \/ MinimaxBegin \/ MinimaxSkip \/ MinimaxPlace
    \/ MinimaxUndo \/ MinimaxReturn
    \/ BestMoveFull \/ BestMoveBegin \/ BestMoveSkip \/ BestMovePlace
    \/ BestMoveUndo \/ BestMoveCommit \/ BestMoveNone

\* ----- the positions a search is started from
\* Positions of a game in play: pieces stacked from the bottom of each
\* column, the human (who moves first) one mark ahead or level, nobody with
\* four in a row yet, and at most MaxEmpty empty cells.
\* Shape of the board and the greatest number of empty cells.
SearchRows == 2
SearchColumns == 6
MaxEmpty == 3

RECURSIVE sum_upto(_, _)
sum_upto(f, n) == IF n < 0 THEN 0 ELSE f[n] + sum_upto(f, n - 1)

count(b, mark) ==
    Cardinality({rc \in (0..(ROWS - 1)) \X (0..(COLUMNS - 1)) : b[rc[1]][rc[2]] = mark})

\* The board whose column c holds h[c] pieces, marked as m says.
stacked(R, C, h, m) ==
    [r \in 0..(R - 1) |-> [c \in 0..(C - 1) |->
        IF r >= R - h[c] THEN m[<<r, c>>] ELSE 0]]

SearchInit ==
    /\ shape = <<SearchRows, SearchColumns>>
    /\ \E h \in [0..(SearchColumns - 1) -> 0..SearchRows] :
          /\ SearchRows * SearchColumns - sum_upto(h, SearchColumns - 1) <= MaxEmpty
          /\ \E m \in [{rc \in (0..(SearchRows - 1)) \X (0..(SearchColumns - 1)) :
                          rc[1] >= SearchRows - h[rc[2]]} -> Marks] :
                board = stacked(SearchRows, SearchColumns, h, m)
    /\ count(board, 1) - count(board, 2) \in {0, 1}
    /\ ~check_win(1, board) /\ ~check_win(2, board)
    /\ check_board = board
    /\ rebound = FALSE
    /\ player = 2
    /\ game_over = FALSE
    /\ stack = <<>>
    /\ returned = <<>>
    /\ called = <<>>

SearchNext ==
    \/ CallBestMove
    \/ \E is_maximizing \in BOOLEAN : CallMinimax(is_maximizing)
    \/ SearchStep

SearchSpec == SearchInit /\ [][SearchNext]_vars

\* The greatest number of empty cells of a position whose search is followed
\* to its end.
LiveEmpty == 2

LiveInit == SearchInit /\ count(board, 0) <= LiveEmpty

\* A call runs on the calling thread, which does nothing else until the call
\* returns: while a step of the search is possible, one is taken.
SearchLive == LiveInit /\ [][SearchNext]_vars /\ WF_vars(SearchStep)

\* ----- the board rules on arbitrary arrays
\* The rule functions take whatever array they are handed. Arrays of two
\* shapes, one large enough for a line in every direction and one small
\* enough to be filled, holding at most MaxPieces marks in any cells.
RulesRows == 4
RulesColumns == 4
SmallRows == 2
SmallColumns == 2
MaxPieces == 4

pieces(b) == count(b, 1) + count(b, 2)

RulesInit ==
    /\ shape \in {<<RulesRows, RulesColumns>>, <<SmallRows, SmallColumns>>}
    /\ board = zeros(shape[1], shape[2])
    /\ check_board = board
    /\ rebound = FALSE
    /\ player = 1
    /\ game_over = FALSE
    /\ stack = <<>>
    /\ returned = <<>>
    /\ called = <<>>

\* A caller stores a mark in a cell of the array: board[r][c] = mark.
SetCell(r, c, mark) ==
    /\ idle
    /\ pieces(board) < MaxPieces
    /\ board[r][c] = 0
    /\ board' = place(board, r, c, mark)
    /\ check_board' = board'
    /\ UNCHANGED <<shape, rebound, player, game_over, search_vars>>

\* A caller invokes mark_square(col, mark) on the array, whatever it holds;
\* the call returns no value.
MarkSquare(col, mark) ==
    /\ idle
    /\ called' = <<[fn |-> "mark_square", col |-> col, mark |-> mark,
                    board |-> board]>>
    /\ board' = mark_square(board, col, mark)
    /\ check_board' = board'
    /\ returned' = <<None>>
    /\ UNCHANGED <<shape, rebound, player, game_over, stack>>

RulesNext ==
    \/ \E r \in 0..(ROWS - 1), c \in 0..(COLUMNS - 1), mark \in Marks :
          SetCell(r, c, mark)
    \/ \E col \in 0..(COLUMNS - 1), mark \in Marks : MarkSquare(col, mark)

RulesSpec == RulesInit /\ [][RulesNext]_vars

\* =================================================================== claims

\* The board the outermost call was given.
given == called[1].board

\* No column of b has an empty cell below an occupied one.
gravity(b) ==
    \A c \in 0..(COLUMNS - 1), r \in 0..(ROWS - 2) :
        b[r][c] # 0 => b[r + 1][c] # 0

\* Four cells in bounds, consecutive from (r, c) in direction d, all hold mark.
line_at(b, mark, r, c, d) ==
    \A k \in 0..3 :
        /\ r + k * d[1] \in 0..(ROWS - 1)
        /\ c + k * d[2] \in 0..(COLUMNS - 1)
        /\ b[r + k * d[1]][c + k * d[2]] = mark

four_in_a_row(b, mark) ==
    \E r \in 0..(ROWS - 1), c \in 0..(COLUMNS - 1),
       d \in {<<0, 1>>, <<1, 0>>, <<1, 1>>, <<1, -1>>} : line_at(b, mark, r, c, d)

\* C7: on every array and for either mark, check_win is true exactly when
\* four cells in bounds, consecutive along a row, a column or either
\* diagonal, all hold the mark.
C7_CheckWinIsFourInARow ==
    \A mark \in Marks : check_win(mark, board) <=> four_in_a_row(board, mark)

\* check_win finds the line that rises from the bottom left corner.
C7_Witness ==
    /\ ROWS = RulesRows
    /\ \A k \in 0..3 : board[ROWS - 1 - k][k] = 2
    /\ check_win(2, board) /\ ~check_win(1, board)

\* The column arguments is_valid_move is tried with.
Cols == (-COLUMNS - 1)..(COLUMNS + 1)

\* C8: for every integer col, is_valid_move(col) returns, and returns true
\* exactly when 0 <= col < COLUMNS and the top cell of column col is empty.
C8_IsValidMoveChecksRange ==
    \A col \in Cols :
        /\ ~is_valid_move_raises(col)
        /\ is_valid_move(board, col)
             <=> (0 <= col /\ col < COLUMNS /\ board[0][col] = 0)

\* C10: on a board without floating pieces a column is a valid move exactly
\* when it has a next open row, and the board is full exactly when no
\* column has one.
C10_ValidIffOpenRow ==
    gravity(board) =>
        /\ \A col \in 0..(COLUMNS - 1) :
              is_valid_move(board, col) <=> get_next_open_row(board, col) # None
        /\ is_board_full(board)
              <=> \A col \in 0..(COLUMNS - 1) : get_next_open_row(board, col) = None

\* A full board without floating pieces: no column is valid or has an open row.
C10_Witness ==
    /\ gravity(board) /\ is_board_full(board)
    /\ \A col \in 0..(COLUMNS - 1) :
          ~is_valid_move(board, col) /\ get_next_open_row(board, col) = None

\* C2: check_win(mark) called without a board reports on the session's
\* current board, after any clicks and restarts (so on the empty board right
\* after a restart it is false for both marks).
C2_DefaultCheckWinReadsCurrentBoard ==
    \A mark \in Marks : check_win_default(mark) <=> check_win(mark, board)

\* C3: in every state of the session at most one player has four in a row
\* on the current board.
C3_AtMostOneWinner == ~(check_win(1, board) /\ check_win(2, board))

\* C16: moves alternate strictly: in every state of the session between two
\* events the current board holds as many human marks as computer marks, or
\* exactly one more. (It holds on the session's board shape, on which no
\* session reaches a board that is not full and on which best_move fails;
\* after such a failure the next click would place a second human mark.)
C16_MovesAlternate == count(board, 1) - count(board, 2) \in {0, 1}

C18_GameOverAbsorbing ==
    [][/\ MouseButtonDownIgnored => UNCHANGED <<board, player, game_over>>
       /\ \A col \in 0..(COLUMNS - 1) :
             (board[0][col] # 0 /\ MouseButtonDown(col))
                 => UNCHANGED <<board, player, game_over>>
       /\ game_over =>
             \/ UNCHANGED <<board, player, game_over>>
             \/ /\ board' = zeros(ROWS, COLUMNS)
                /\ game_over' = FALSE
                /\ player' = 1]_vars

\* A restart has left a game that was over, with the computer to move, for
\* an empty board with the human to move.
C18_Witness ==
    /\ rebound /\ check_win(2, check_board)
    /\ board = zeros(ROWS, COLUMNS) /\ ~game_over /\ player = 1

\* ----- claims about mark_square

mark_square_done == done /\ called[1].fn = "mark_square"

\* The cells of b that hold something else than the same cell of a.
changed(a, b) ==
    {rc \in (0..(ROWS - 1)) \X (0..(COLUMNS - 1)) : a[rc[1]][rc[2]] # b[rc[1]][rc[2]]}

\* The empty cells of column col.
empty_rows(b, col) == {r \in 0..(ROWS - 1) : b[r][col] = 0}

\* C11: mark_square(col, mark) changes at most one cell. On a column with an
\* empty cell it stores mark in the lowest empty cell of col and leaves
\* every other cell as it was; on a full column it leaves the whole board
\* as it was. Either way it returns no value.
C11_MarkSquareFrame ==
    mark_square_done =>
        LET col  == called[1].col
            open == empty_rows(given, col)
        IN  /\ returned = <<None>>
            /\ IF open = {}
               THEN board = given
               ELSE \E r \in open :
                      /\ \A s \in open : s <= r
                      /\ changed(given, board) = {<<r, col>>}
                      /\ board[r][col] = called[1].mark

\* mark_square filled the lowest empty cell of a column that holds a mark
\* further up, on a board that holds marks in other columns too.
C11_Witness ==
    /\ mark_square_done
    /\ LET col == called[1].col
       IN  /\ given[ROWS - 1][col] = 0 /\ given[0][col] # 0
           /\ board[ROWS - 1][col] = called[1].mark
           /\ \E c \in 0..(COLUMNS - 1) : c # col /\ given[ROWS - 1][c] # 0

\* The row the call of mark_square filled, None when the column was full.
filled_row == get_next_open_row(given, called[1].col)

\* C12, as stated: after mark_square(col, p) on a column with an empty cell,
\* the filled cell holds p and get_next_open_row(col) returns a row index
\* strictly above the filled row, also when the filled row is the top one.
C12_NextOpenRowStrictlyAbove ==
    (mark_square_done /\ filled_row # None) =>
        /\ board[filled_row][called[1].col] = called[1].mark
        /\ get_next_open_row(board, called[1].col) \in 0..(filled_row - 1)

\* C12, amended: after mark_square(col, p) on a column with an empty cell,
\* the filled cell holds p, and get_next_open_row(col) returns the lowest
\* empty row above the filled one, or None when no cell above it is empty
\* (as when the filled row is the top one).
C12_NextOpenRowAboveOrNone ==
    (mark_square_done /\ filled_row # None) =>
        LET col   == called[1].col
            above == {r \in empty_rows(given, col) : r < filled_row}
            next  == get_next_open_row(board, col)
        IN  /\ board[filled_row][col] = called[1].mark
            /\ IF above = {} THEN next = None
               ELSE next \in above /\ \A r \in above : r <= next

\* mark_square filled the top cell of a column, whose next open row is None.
C12_Witness ==
    /\ mark_square_done /\ filled_row = 0
    /\ board[0][called[1].col] = called[1].mark
    /\ get_next_open_row(board, called[1].col) = None

\* ----- claims about the search

best_move_done == done /\ called[1].fn = "best_move"
minimax_done == done /\ called[1].fn = "minimax"

legal_columns(b) == {c \in 0..(COLUMNS - 1) : b[0][c] = 0}

\* b after the computer's mark is dropped in column c.
after_move(b, c) == place(b, get_next_open_row(b, c), c, 2)

lowest(S) == CHOOSE c \in S : \A d \in S : c <= d

\* C1: best_move returns True and commits exactly one computer mark on every
\* board with a legal column; it returns False, committing nothing, only on
\* a full board.
C1_BestMoveFailsOnlyWhenFull ==
    best_move_done =>
        IF is_board_full(given)
        THEN returned[1] = FALSE /\ board = given
        ELSE /\ returned[1] = TRUE
             /\ \E c \in legal_columns(given) : board = after_move(given, c)

\* C4: the search retracts every speculative placement. Whenever a call is
\* at its entry or between two trials the board is the one the call was
\* given; minimax returns with the board it was given; best_move returns
\* with that board, changed, when it reports success, in the lowest empty
\* cell of one column, which holds the computer's mark.
C4_SearchRestoresBoard ==
    /\ (stack # <<>> /\ top.pc \in {"entry", "loop"}) => board = top.given
    /\ minimax_done => board = given
    /\ best_move_done =>
          IF returned[1]
          THEN \E c \in legal_columns(given) : board = after_move(given, c)
          ELSE board = given

\* best_move has searched a board with MaxEmpty empty cells and committed.
C4_Witness ==
    /\ best_move_done /\ returned[1]
    /\ count(given, 0) = MaxEmpty
    /\ count(board, 0) = MaxEmpty - 1 /\ board # given

\* The columns in which the computer's mark completes four in a row.
immediate_wins(b) ==
    {c \in legal_columns(b) : check_win(2, after_move(b, c))}

\* The score best_move's loop obtains for column c.
column_score(b, c) == minimax(after_move(b, c), 0, FALSE).score

\* C5: when the computer has not won and some legal column completes four
\* in a row for it, best_move commits the lowest such column and returns
\* True, and the computer has won afterwards.
C5_TakesImmediateWin ==
    (best_move_done /\ ~check_win(2, given) /\ immediate_wins(given) # {}) =>
        /\ returned[1] = TRUE
        /\ board = after_move(given, lowest(immediate_wins(given)))
        /\ check_win(2, board)

\* best_move took the immediate win although a lower column wins by force.
C5_Witness ==
    /\ best_move_done /\ immediate_wins(given) # {}
    /\ \E c \in legal_columns(given) :
          /\ c < lowest(immediate_wins(given))
          /\ column_score(given, c) = SENTINEL
    /\ returned[1] /\ check_win(2, board)

\* The legal columns of b whose score is the greatest.
top_columns(b) ==
    {c \in legal_columns(b) :
        \A d \in legal_columns(b) : column_score(b, d) <= column_score(b, c)}

\* C6: on a board that is not full, when two or more legal columns share the
\* greatest score, best_move commits the lowest of them.
C6_TieBreakLowestColumn ==
    (best_move_done /\ ~is_board_full(given)
        /\ Cardinality(top_columns(given)) >= 2) =>
        board = after_move(given, lowest(top_columns(given)))

\* b after mark is dropped in column c.
drop(b, c, mark) == place(b, get_next_open_row(b, c), c, mark)

maximum(S) == CHOOSE x \in S : \A y \in S : y <= x
minimum(S) == CHOOSE x \in S : \A y \in S : x <= y

\* The scores minimax obtains for the legal children of b.
child_scores(b, is_maximizing) ==
    {minimax(drop(b, c, branch_mark(is_maximizing)), 1, ~is_maximizing).score :
        c \in legal_columns(b)}

\* C13: on a position without a winner that is not full, minimax returns
\* exactly the maximum of its legal children's scores when maximizing and
\* exactly their minimum when minimizing (so -inf when every child of a
\* maximizing node scores -inf, +inf when every child of a minimizing node
\* scores +inf).
C13_MinimaxReturnsExtremum ==
    (minimax_done /\ terminal_score(given) = <<>>) =>
        returned[1] = IF called[1].is_maximizing
                      THEN maximum(child_scores(given, TRUE))
                      ELSE minimum(child_scores(given, FALSE))

\* The outcome of b for the computer under best play by both sides: 1 for a
\* forced win, 0 for a draw, -1 for a forced loss.
RECURSIVE outcome(_, _)
outcome(b, computer_to_move) ==
    IF four_in_a_row(b, 2) THEN 1
    ELSE IF four_in_a_row(b, 1) THEN -1
    ELSE IF legal_columns(b) = {} THEN 0
    ELSE LET below == {outcome(drop(b, c, IF computer_to_move THEN 2 ELSE 1),
                               ~computer_to_move) : c \in legal_columns(b)}
         IN  IF computer_to_move THEN maximum(below) ELSE minimum(below)

\* The column best_move committed.
committed == CHOOSE c \in legal_columns(given) : board = after_move(given, c)

\* C14: when best_move commits a column on a position nobody has won, the
\* outcome of that column for the computer under best play by both sides is
\* the best outcome any legal column gives.
C14_CommitsOptimalColumn ==
    (best_move_done /\ returned[1] = TRUE
        /\ ~four_in_a_row(given, 1) /\ ~four_in_a_row(given, 2)) =>
        /\ \E c \in legal_columns(given) : board = after_move(given, c)
        /\ outcome(board, FALSE) = outcome(given, TRUE)

\* best_move committed a column that draws where another legal column loses
\* and none wins.
C14_Witness ==
    /\ best_move_done /\ returned[1] = TRUE
    /\ outcome(given, TRUE) = 0 /\ outcome(board, FALSE) = 0
    /\ \E c \in legal_columns(given) : outcome(after_move(given, c), FALSE) = -1

\* C15: minimax gives a win the same score however deep it lies: a
\* maximizing node at which the computer wins by force, at once or later,
\* scores +inf, and a minimizing node at which the human wins by force
\* scores -inf.
C15_NoFasterWinDistinction ==
    (minimax_done /\ terminal_score(given) = <<>>) =>
        /\ (called[1].is_maximizing /\ outcome(given, TRUE) = 1)
              => returned[1] = PosInf
        /\ (~called[1].is_maximizing /\ outcome(given, FALSE) = -1)
              => returned[1] = -PosInf

\* The calls in progress are nested no deeper than the outermost call's board
\* has empty cells, and each was handed a board with exactly one more
\* occupied cell than its caller's.
depth_bounded ==
    stack # <<>> =>
        /\ Len(stack) - 1 <= count(given, 0)
        /\ \A i \in 1..Len(stack) : stack[i].depth <= count(given, 0)
        /\ \A i \in 1..(Len(stack) - 1) :
              count(stack[i].given, 0) = count(stack[i + 1].given, 0) - 1

\* C19: the search terminates: every call of best_move or minimax returns,
\* and meanwhile the recursion is never deeper than the number of empty
\* cells of the board the call was made on, every recursive call being made
\* on a board with exactly one more occupied cell.
C19_SearchTerminates ==
    /\ []depth_bounded
    /\ (stack # <<>>) ~> done

\* The recursion has reached a full board from a board with LiveEmpty empty
\* cells: as many nested calls as the board had empty cells.
C19_Witness ==
    /\ stack # <<>> /\ count(given, 0) = LiveEmpty
    /\ Len(stack) - 1 = LiveEmpty /\ count(board, 0) = 0

\* C9: no floating pieces, in every state of a search in progress: no column
\* has an empty cell below an occupied one.
C9_NoFloatingPieces == gravity(board)

\* Two speculative marks stand in one column, inside nested calls.
C9_Witness ==
    /\ Len(stack) >= 3
    /\ \E c \in 0..(COLUMNS - 1) :
          /\ given[0][c] = 0 /\ given[1][c] = 0
          /\ board[0][c] # 0 /\ board[1][c] # 0

====
